---- MODULE Spec2Model ----
(***************************************************************************)
(* AtomicWallet (src/main.py): wallets with integer balances in cents, a   *)
(* transactions ledger, and the /create_wallet, /balance and /transfer     *)
(* handlers running concurrently, each in its own SQLAlchemy session over  *)
(* one PostgreSQL database (READ COMMITTED, SELECT ... FOR UPDATE row      *)
(* locks held until the session commits or rolls back).                    *)
(***************************************************************************)
EXTENDS Integers, Sequences, FiniteSets, TLC

\* ---------------------------------------------------------------- bounds
\* Number of /transfer requests of a run; each runs in its own session.
NumTransfers == 2
\* Number of /create_wallet requests that may be between their existence
\* check and their INSERT at one time.
MaxCreating == 2
NumReads == 1

\* ------------------------------------------------------------- constants
\* Wallet(user_name=..., balance_cents=10000)
BonusCents == 10000
\* int(self.amount_dollars * 100)
CentsPerDollar == 100
\* amount_dollars is a float.  The model offers the doubles k / 2^7: these,
\* and their products with 100, are exact in binary floating point, so that
\* int(amount_dollars * 100) is computed here exactly as Python computes it.
DollarDenominator == 128

Names == {"alice", "bob"}
\* Numerators k of the amount_dollars offered: 0 (rejected by gt=0),
\* 1/128 $ (positive, less than one cent), 30 $, 60 $ and 120 $ (more than
\* the bonus).
AmountsOffered == {0, 1, 3840, 7680, 15360}

Transfers == 1..NumTransfers

None == "None"
NoRow == [id |-> 0, balance_cents |-> 0]
NoRecord == [sender_id |-> 0, receiver_id |-> 0, amount_cents |-> 0]
NoResponse == [msg |-> "none", username |-> None]
NoRequest == [sender_username |-> None, receiver_username |-> None, amount_dollars |-> 0]

VARIABLES
    wallets,        \* committed table wallets: user_name -> row (id 0: no row)
    transactions,   \* committed table transactions, in commit order
    wallet_id_seq,  \* last value of the serial wallets.id
    txn_id_seq,     \* last value of the serial transactions.id
    row_lock,       \* FOR UPDATE lock of each wallet row: holder, or 0
    pc,             \* position of each transfer request in transfer_funds
    req,            \* its TransferRequest
    sender,         \* its local `sender`: a user_name of its session, or None
    receiver,       \* its local `receiver`
    session,        \* its session's Wallet objects: user_name -> balance_cents
    txn_record,     \* its pending Transaction (db.add), or NoRecord
    outcome,        \* its response
    early,          \* history: a transfer arrived before its two wallets existed
    lock_order,     \* history: <<first, second>> rows locked by one transfer
    creating,       \* create_wallet requests past their check: user_name -> number
    cresp,          \* the response of the create_wallet request served last
    bresp           \* the responses of the get_balance requests, as served

vars == <<wallets, transactions, wallet_id_seq, txn_id_seq, row_lock, pc, req,
          sender, receiver, session, txn_record, outcome, early, lock_order,
          creating, cresp, bresp>>

dbVars == <<wallets, transactions, wallet_id_seq, txn_id_seq>>
transferVars == <<row_lock, pc, req, sender, receiver, session, txn_record,
                  outcome, early, lock_order>>
createVars == <<creating, cresp>>

\* ------------------------------------------------------------- helpers
Exists(n) == wallets[n].id # 0

\* int(x): truncation toward zero of the exact quotient num / den.
int(num, den) == IF num >= 0 THEN num \div den ELSE -((-num) \div den)

\* TransferRequest.amount_cents
amount_cents(r) == int(r.amount_dollars * CentsPerDollar, DollarDenominator)

\* Field(..., gt=0)
gt0(d) == d > 0

Unloaded == -1
EmptySession == [n \in Names |-> Unloaded]

Init ==
    /\ wallets = [n \in Names |-> NoRow]
    /\ transactions = << >>
    /\ wallet_id_seq = 0
    /\ txn_id_seq = 0
    /\ row_lock = [n \in Names |-> 0]
    /\ pc = [t \in Transfers |-> "idle"]
    /\ req = [t \in Transfers |-> NoRequest]
    /\ sender = [t \in Transfers |-> None]
    /\ receiver = [t \in Transfers |-> None]
    /\ session = [t \in Transfers |-> EmptySession]
    /\ txn_record = [t \in Transfers |-> NoRecord]
    /\ outcome = [t \in Transfers |-> "none"]
    /\ early = FALSE
    /\ lock_order = {}
    /\ creating = [n \in Names |-> 0]
    /\ cresp = NoResponse
    /\ bresp = << >>

\* ------------------------------------------------------- create_wallet
RECURSIVE SumOver(_, _)
SumOver(f, S) ==
    IF S = {} THEN 0
    ELSE LET x == CHOOSE y \in S : TRUE IN f[x] + SumOver(f, S \ {x})


\* Mutant of CreateCheck: an existing wallet gets the bonus balance again.
CreateCheck_resets(n) ==
    /\ IF Exists(n)
       THEN /\ cresp' = [msg |-> "User already exists", username |-> n]
            /\ creating' = creating
            /\ wallets' = [wallets EXCEPT ![n].balance_cents = BonusCents]
       ELSE /\ SumOver(creating, Names) < MaxCreating
            /\ creating' = [creating EXCEPT ![n] = @ + 1]
            /\ cresp' = cresp
            /\ wallets' = wallets
    /\ UNCHANGED <<transactions, wallet_id_seq, txn_id_seq, transferVars, bresp>>

\* existing_user = db.query(Wallet).filter(...).first(); return if it exists.
CreateCheck(n) ==
    /\ IF Exists(n)
       THEN /\ cresp' = [msg |-> "User already exists", username |-> n]
            /\ creating' = creating
       ELSE /\ SumOver(creating, Names) < MaxCreating
            /\ creating' = [creating EXCEPT ![n] = @ + 1]
            /\ cresp' = cresp
    /\ UNCHANGED <<dbVars, transferVars, bresp>>

\* db.add(new_wallet); db.commit().  The INSERT draws an id from the serial
\* and fails on the unique index of user_name if the name was committed
\* meanwhile (IntegrityError, not caught: the request ends with an error).
CreateInsert(n) ==
    /\ creating[n] > 0
    /\ creating' = [creating EXCEPT ![n] = @ - 1]
    /\ wallet_id_seq' = wallet_id_seq + 1
    /\ IF Exists(n)
       THEN /\ wallets' = wallets
            /\ cresp' = [msg |-> "IntegrityError", username |-> None]
       ELSE /\ wallets' = [wallets EXCEPT ![n] =
                              [id |-> wallet_id_seq + 1, balance_cents |-> BonusCents]]
            /\ cresp' = [msg |-> "Wallet created", username |-> n]
    /\ UNCHANGED <<transactions, txn_id_seq, transferVars, bresp>>

\* ---------------------------------------------------------- get_balance
\* Mutant of read_committed: the read sees the uncommitted balance of the
\* transfer holding the row's lock.
read_dirty(n) ==
    IF row_lock[n] # 0 /\ session[row_lock[n]][n] # Unloaded
    THEN session[row_lock[n]][n]
    ELSE wallets[n].balance_cents

\* db.query(Wallet).filter(...).first(): a plain SELECT takes no row lock,
\* waits for none and sees the last committed version of the row.
read_committed(n) == wallets[n].balance_cents

\* wallet.balance_cents / 100.0 is kept as the fraction cents / per.
GetBalance(n) ==
    /\ Len(bresp) < NumReads
    /\ bresp' = Append(bresp,
                    IF Exists(n)
                    THEN [status |-> 200, username |-> n,
                          cents |-> read_committed(n), per |-> CentsPerDollar]
                    ELSE [status |-> 404, username |-> n, cents |-> 0, per |-> 0])
    /\ UNCHANGED <<dbVars, transferVars, createVars>>

\* ------------------------------------------------------- transfer_funds
\* Mutant of can_lock: the queries without with_for_update().
can_lock_unlocked(t, n) == TRUE

\* A row lock is granted when the row is free or already held by the session.
can_lock(t, n) == row_lock[n] \in {0, t}

\* Mutant of release: the locks outlive the database transaction.
release_nothing(t) == row_lock

\* Commit and rollback end the database transaction: its row locks go.
release(t) == [n \in Names |-> IF row_lock[n] = t THEN 0 ELSE row_lock[n]]

\* The session's identity map: a row already loaded keeps its object, a new
\* row is loaded with the committed balance (read after the lock is granted).
load(t, n) ==
    IF session[t][n] # Unloaded THEN session[t]
    ELSE [session[t] EXCEPT ![n] = wallets[n].balance_cents]

\* Mutant of debit: the debit is lost.
debit_dropped(balance, amount) == balance

\* sender.balance_cents -= req.amount_cents
debit(balance, amount) == balance - amount

\* Mutant of credit: the credit is lost.
credit_dropped(balance, amount) == balance

\* receiver.balance_cents += req.amount_cents
credit(balance, amount) == balance + amount

\* Mutant of insufficient: the balance check is missing.
insufficient_unchecked(balance, amount) == FALSE

\* sender.balance_cents < req.amount_cents
insufficient(balance, amount) == balance < amount

\* Requests are numbered as they arrive.  The request body is validated
\* (amount_dollars > 0) before the handler runs.
Submit(t, s, r, d) ==
    /\ pc[t] = "idle"
    /\ \A u \in Transfers : u < t => pc[u] # "idle"
    /\ req' = [req EXCEPT ![t] =
                  [sender_username |-> s, receiver_username |-> r, amount_dollars |-> d]]
    /\ early' = (early \/ ~Exists(s) \/ ~Exists(r))
    /\ IF gt0(d)
       THEN /\ pc' = [pc EXCEPT ![t] = "lock_sender"]
            /\ outcome' = outcome
       ELSE /\ pc' = [pc EXCEPT ![t] = "done"]
            /\ outcome' = [outcome EXCEPT ![t] = "invalid"]
    /\ UNCHANGED <<dbVars, createVars, row_lock, sender, receiver, session,
                   txn_record, lock_order, bresp>>

\* sender = db.query(Wallet).filter(...).with_for_update().first()
LockSender(t) ==
    /\ pc[t] = "lock_sender"
    /\ LET n == req[t].sender_username IN
       IF Exists(n)
       THEN /\ can_lock(t, n)
            /\ row_lock' = [row_lock EXCEPT ![n] = t]
            /\ sender' = [sender EXCEPT ![t] = n]
            /\ session' = [session EXCEPT ![t] = load(t, n)]
       ELSE /\ UNCHANGED <<row_lock, sender, session>>
    /\ pc' = [pc EXCEPT ![t] = "lock_receiver"]
    /\ UNCHANGED <<dbVars, createVars, req, receiver, txn_record, outcome, early,
                   lock_order, bresp>>

\* Mutant of Abort: the failed attempt is written to the ledger.
Abort_logged(t, why) ==
    /\ pc' = [pc EXCEPT ![t] = "done"]
    /\ outcome' = [outcome EXCEPT ![t] = why]
    /\ row_lock' = release(t)
    /\ sender' = [sender EXCEPT ![t] = None]
    /\ receiver' = [receiver EXCEPT ![t] = None]
    /\ session' = [session EXCEPT ![t] = EmptySession]
    /\ txn_record' = [txn_record EXCEPT ![t] = NoRecord]
    /\ transactions' = Append(transactions,
           [id |-> 0, sender_id |-> 0, receiver_id |-> 0, amount_cents |-> 0])
    /\ UNCHANGED <<wallets, wallet_id_seq, createVars, req, early, bresp>>

\* raise ...; except Exception as e: db.rollback(); raise e
\* The rollback discards the session's objects and releases its row locks;
\* the committed tables stay as they are.
Abort(t, why) ==
    /\ pc' = [pc EXCEPT ![t] = "done"]
    /\ outcome' = [outcome EXCEPT ![t] = why]
    /\ row_lock' = release(t)
    /\ sender' = [sender EXCEPT ![t] = None]
    /\ receiver' = [receiver EXCEPT ![t] = None]
    /\ session' = [session EXCEPT ![t] = EmptySession]
    /\ txn_record' = [txn_record EXCEPT ![t] = NoRecord]
    /\ UNCHANGED <<wallets, transactions, wallet_id_seq, createVars, req, early, bresp>>

\* receiver = db.query(Wallet).filter(...).with_for_update().first(), then,
\* without waiting again, the handler up to db.commit(): the two checks, the
\* debit, the credit and db.add(txn_record), all on the session's objects
\* (autoflush=False: nothing reaches the database before the commit).
LockReceiver(t) ==
    /\ pc[t] = "lock_receiver"
    /\ LET n == req[t].receiver_username
           found == Exists(n)
           loaded == IF found THEN load(t, n) ELSE session[t]
           a == amount_cents(req[t])
       IN /\ found => can_lock(t, n)
          /\ lock_order' = IF found /\ sender[t] \notin {None, n}
                           THEN lock_order \cup {<<sender[t], n>>}
                           ELSE lock_order
          /\ IF sender[t] = None \/ ~found
             THEN Abort(t, "not_found") /\ UNCHANGED txn_id_seq
             ELSE IF insufficient(loaded[sender[t]], a)
             THEN Abort(t, "insufficient") /\ UNCHANGED txn_id_seq
             ELSE LET debited == [loaded EXCEPT ![sender[t]] = debit(@, a)]
                      credited == [debited EXCEPT ![n] = credit(@, a)]
                  IN /\ row_lock' = [row_lock EXCEPT ![n] = t]
                     /\ receiver' = [receiver EXCEPT ![t] = n]
                     /\ session' = [session EXCEPT ![t] = credited]
                     /\ txn_record' = [txn_record EXCEPT ![t] =
                                          [sender_id |-> wallets[sender[t]].id,
                                           receiver_id |-> wallets[n].id,
                                           amount_cents |-> a]]
                     /\ pc' = [pc EXCEPT ![t] = "commit"]
                     /\ UNCHANGED <<dbVars, createVars, req, sender, outcome, early,
                                    bresp>>

\* Mutant of flush: the receiver's UPDATE is lost.
flush_sender_only(t) ==
    [n \in Names |->
        IF n = sender[t]
        THEN [wallets[n] EXCEPT !.balance_cents = session[t][n]]
        ELSE wallets[n]]

\* The UPDATEs of db.commit(): the balances of the session's two objects.
flush(t) ==
    [n \in Names |->
        IF n \in {sender[t], receiver[t]}
        THEN [wallets[n] EXCEPT !.balance_cents = session[t][n]]
        ELSE wallets[n]]

\* Mutant of insert: the record takes its sender's id for its own.
insert_sender_id(t) ==
    Append(transactions,
           [id |-> txn_record[t].sender_id,
            sender_id |-> txn_record[t].sender_id,
            receiver_id |-> txn_record[t].receiver_id,
            amount_cents |-> txn_record[t].amount_cents])

\* Mutant of insert: db.add(txn_record) is missing.
insert_nothing(t) == transactions

\* The INSERT of db.commit(): the pending txn_record, with the next id.
insert(t) ==
    Append(transactions,
           [id |-> txn_id_seq + 1,
            sender_id |-> txn_record[t].sender_id,
            receiver_id |-> txn_record[t].receiver_id,
            amount_cents |-> txn_record[t].amount_cents])

\* db.commit(); db.refresh(txn_record); return {"status": "success", ...}
Commit(t) ==
    /\ pc[t] = "commit"
    /\ wallets' = flush(t)
    /\ txn_id_seq' = txn_id_seq + 1
    /\ transactions' = insert(t)
    /\ pc' = [pc EXCEPT ![t] = "done"]
    /\ outcome' = [outcome EXCEPT ![t] = "success"]
    /\ row_lock' = release(t)
    /\ sender' = [sender EXCEPT ![t] = None]
    /\ receiver' = [receiver EXCEPT ![t] = None]
    /\ session' = [session EXCEPT ![t] = EmptySession]
    /\ txn_record' = [txn_record EXCEPT ![t] = NoRecord]
    /\ UNCHANGED <<wallet_id_seq, createVars, req, early, lock_order, bresp>>

\* Mutant of CommitFails: the sender's UPDATE survives the failed commit.
CommitFails_partial(t) ==
    /\ pc[t] = "commit"
    /\ wallets' = [wallets EXCEPT ![sender[t]].balance_cents = session[t][sender[t]]]
    /\ pc' = [pc EXCEPT ![t] = "done"]
    /\ outcome' = [outcome EXCEPT ![t] = "storage_failure"]
    /\ row_lock' = release(t)
    /\ sender' = [sender EXCEPT ![t] = None]
    /\ receiver' = [receiver EXCEPT ![t] = None]
    /\ session' = [session EXCEPT ![t] = EmptySession]
    /\ txn_record' = [txn_record EXCEPT ![t] = NoRecord]
    /\ \E drawn \in {0, 1} : txn_id_seq' = txn_id_seq + drawn
    /\ UNCHANGED <<transactions, wallet_id_seq, createVars, req, early, lock_order,
                   bresp>>

\* db.commit() raises (connection or storage fault): the except branch rolls
\* back.  The INSERT may or may not have drawn its id before the fault.
CommitFails(t) ==
    /\ pc[t] = "commit"
    /\ Abort(t, "storage_failure")
    /\ \E drawn \in {0, 1} : txn_id_seq' = txn_id_seq + drawn
    /\ UNCHANGED lock_order

\* A transfer waiting for a row lock.
Wanted(t) ==
    IF pc[t] = "lock_sender" THEN req[t].sender_username
    ELSE req[t].receiver_username

Blocked(t) ==
    /\ pc[t] \in {"lock_sender", "lock_receiver"}
    /\ Exists(Wanted(t))
    /\ ~can_lock(t, Wanted(t))

WaitsFor(t) == IF Blocked(t) THEN row_lock[Wanted(t)] ELSE 0

RECURSIVE Reaches(_, _, _)
Reaches(from, to, k) ==
    /\ k > 0
    /\ WaitsFor(from) # 0
    /\ \/ WaitsFor(from) = to
       \/ Reaches(WaitsFor(from), to, k - 1)

\* t waits, through a chain of lock holders, for a lock it holds itself.
InCycle(t) == Reaches(t, t, NumTransfers)

\* The code sets no lock timeout.  On a circular wait the transfers wait
\* for ever, unless the database's deadlock detector makes the blocked query
\* of one of them raise: the except branch then rolls that transfer back.
DeadlockVictim(t) ==
    /\ InCycle(t)
    /\ Abort(t, "deadlock")
    /\ UNCHANGED <<txn_id_seq, lock_order>>

Next ==
    \/ \E n \in Names : CreateCheck(n)
    \/ \E n \in Names : CreateInsert(n)
    \/ \E t \in Transfers, s \in Names, r \in Names, d \in AmountsOffered :
          Submit(t, s, r, d)
    \/ \E t \in Transfers : LockSender(t)
    \/ \E t \in Transfers : LockReceiver(t)
    \/ \E t \in Transfers : Commit(t)
    \/ \E t \in Transfers : CommitFails(t)
    \/ \E t \in Transfers : DeadlockVictim(t)

\* The creations and the transfers: a read changes nothing they see.
Spec == Init /\ [][Next]_vars

\* The balance reads run against the transfers.  The wallets are those of
\* a state Spec reaches before any transfer arrives: alice's wallet was
\* created first, bob's is there or not yet, no creation is under way.
CreationOrder == <<"alice", "bob">>

InitRead ==
    /\ \E k \in 1..Len(CreationOrder) :
          /\ wallets = [n \in Names |->
                           IF \E i \in 1..k : CreationOrder[i] = n
                           THEN [id |-> CHOOSE i \in 1..k : CreationOrder[i] = n,
                                 balance_cents |-> BonusCents]
                           ELSE NoRow]
          /\ wallet_id_seq = k
          /\ cresp = [msg |-> "Wallet created", username |-> CreationOrder[k]]
    /\ transactions = << >>
    /\ txn_id_seq = 0
    /\ row_lock = [n \in Names |-> 0]
    /\ pc = [t \in Transfers |-> "idle"]
    /\ req = [t \in Transfers |-> NoRequest]
    /\ sender = [t \in Transfers |-> None]
    /\ receiver = [t \in Transfers |-> None]
    /\ session = [t \in Transfers |-> EmptySession]
    /\ txn_record = [t \in Transfers |-> NoRecord]
    /\ outcome = [t \in Transfers |-> "none"]
    /\ early = FALSE
    /\ lock_order = {}
    /\ creating = [n \in Names |-> 0]
    /\ bresp = << >>

NextRead ==
    \/ \E n \in Names : GetBalance(n)
    \/ \E t \in Transfers, s \in Names, r \in Names, d \in AmountsOffered :
          Submit(t, s, r, d)
    \/ \E t \in Transfers : LockSender(t)
    \/ \E t \in Transfers : LockReceiver(t)
    \/ \E t \in Transfers : Commit(t)
    \/ \E t \in Transfers : CommitFails(t)
    \/ \E t \in Transfers : DeadlockVictim(t)

ReadSpec == InitRead /\ [][NextRead]_vars

\* Each handler that can take its next step takes it: a request thread is
\* never starved.  Nothing of the kind is assumed of the database's deadlock
\* detector, which the code neither configures nor relies on.
HandlerStep(t) == LockSender(t) \/ LockReceiver(t) \/ Commit(t) \/ CommitFails(t)

FairSpec == ReadSpec /\ \A t \in Transfers : WF_vars(HandlerStep(t))

\* ================================================================ claims
Launched == {t \in Transfers : pc[t] # "idle"}
Existing == {n \in Names : Exists(n)}
Balance == [n \in Names |-> wallets[n].balance_cents]
Succeeded == {t \in Transfers : outcome[t] = "success"}
Quiescent == \A t \in Transfers : pc[t] \in {"idle", "done"}

\* ---------------------------------------------------------------------
\* C1 (Conservation): in every reachable state the committed balances add
\* up to 10000 times the number of wallets created.
Conservation ==
    SumOver(Balance, Names) = BonusCents * Cardinality(Existing)

\* A transfer of a positive number of cents has committed.
ConservationWitness ==
    /\ \E t \in Succeeded : amount_cents(req[t]) > 0
    /\ \E n \in Existing : Balance[n] # BonusCents

\* ---------------------------------------------------------------------
\* C2 (Non-negativity): every committed balance is >= 0 in every reachable
\* state, also when transfers from one sender together exceed its balance.
NonNegative == \A n \in Names : wallets[n].balance_cents >= 0

\* Two transfers from one sender, together more than its bonus, have run:
\* one was paid, the other refused.
NonNegativeWitness ==
    \E t, u \in Transfers :
        /\ t # u
        /\ req[t].sender_username = req[u].sender_username
        /\ amount_cents(req[t]) + amount_cents(req[u]) > BonusCents
        /\ outcome[t] = "success"
        /\ outcome[u] = "insufficient"

\* ---------------------------------------------------------------------
\* C3 (Atomicity, no lost update): when the transfers of a run are N requests
\* of a cents each from X to Y, both wallets existed before the first arrived
\* (B = 10000), N * a <= B and no commit met a storage fault, then once all N
\* have finished every one succeeded, X holds B - N*a, Y holds 10000 + N*a
\* and the ledger holds exactly N records, each of a cents from X to Y.
AtomicTransfers ==
    \A X \in Names, Y \in Names, d \in AmountsOffered :
        LET N == Cardinality(Launched)
            r == [sender_username |-> X, receiver_username |-> Y, amount_dollars |-> d]
            a == amount_cents(r)
        IN  (/\ X # Y
             /\ gt0(d)
             /\ N >= 1
             /\ ~early
             /\ \A t \in Launched :
                   req[t] = r /\ pc[t] = "done" /\ outcome[t] # "storage_failure"
             /\ N * a <= BonusCents)
            => /\ \A t \in Launched : outcome[t] = "success"
               /\ wallets[X].balance_cents = BonusCents - N * a
               /\ wallets[Y].balance_cents = BonusCents + N * a
               /\ Len(transactions) = N
               /\ \A i \in DOMAIN transactions :
                     /\ transactions[i].amount_cents = a
                     /\ transactions[i].sender_id = wallets[X].id
                     /\ transactions[i].receiver_id = wallets[Y].id

\* Every request of the run (at least two) was the same transfer of a
\* positive number of cents, and all have been paid.
AtomicTransfersWitness ==
    /\ ~early
    /\ Launched = Transfers
    /\ Cardinality(Launched) >= 2
    /\ \A t \in Transfers :
          /\ req[t] = req[1]
          /\ outcome[t] = "success"
    /\ req[1].sender_username # req[1].receiver_username
    /\ amount_cents(req[1]) > 0

\* ---------------------------------------------------------------------
\* C4 (Deadlock freedom): in no reachable state does a transfer wait, through
\* a chain of lock holders, for a lock it holds itself (no circular wait).
NoCircularWait == \A t \in Transfers : ~InCycle(t)

\* ---------------------------------------------------------------------
\* C5 (Canonical lock order): no two transfers take the locks of the same two
\* wallets in opposite orders.
CanonicalLockOrder ==
    \A p \in lock_order : <<p[2], p[1]>> \notin lock_order

\* ---------------------------------------------------------------------
\* C6 (Failure no-op): a step of a transfer that does not end it with success,
\* and in particular the step that rejects it with not-found or with
\* insufficient funds, leaves the committed wallets and the ledger as they
\* were, whatever the other transfers are doing.
FailureNoOp ==
    [][\A t \in Transfers :
          (pc'[t] # pc[t] /\ outcome'[t] \in {"none", "not_found", "insufficient"})
          => (wallets' = wallets /\ transactions' = transactions)]_vars

\* A transfer has been refused for insufficient funds after another one had
\* committed and moved the balances.
FailureNoOpWitness ==
    /\ \E t \in Transfers : outcome[t] = "insufficient"
    /\ Len(transactions) > 0
    /\ \E n \in Existing : Balance[n] # BonusCents

\* ---------------------------------------------------------------------
\* Serial execution: the requests one at a time, each handler run from its
\* first line to its last.  Absent: the wallet has not been created.
Absent == Unloaded

\* The outcome of transfer_funds for request r run alone on balances bal.
SerialOutcome(bal, r) ==
    IF bal[r.sender_username] = Absent \/ bal[r.receiver_username] = Absent
    THEN "not_found"
    ELSE IF insufficient(bal[r.sender_username], amount_cents(r))
    THEN "insufficient"
    ELSE "success"

\* The balances it leaves.
SerialBalances(bal, r) ==
    IF SerialOutcome(bal, r) # "success" THEN bal
    ELSE LET debited == [bal EXCEPT ![r.sender_username] = debit(@, amount_cents(r))]
         IN [debited EXCEPT ![r.receiver_username] = credit(@, amount_cents(r))]

\* Some order of the transfers in ts and of the creations of the wallets in
\* cs, run serially from balances bal, gives every transfer its outcome and
\* ends with the committed balances.
RECURSIVE SerialRun(_, _, _)
SerialRun(bal, ts, cs) ==
    IF ts = {} /\ cs = {}
    THEN \A n \in Names : bal[n] = IF Exists(n) THEN Balance[n] ELSE Absent
    ELSE \/ \E n \in cs :
               SerialRun([bal EXCEPT ![n] = BonusCents], ts, cs \ {n})
         \/ \E t \in ts :
               /\ SerialOutcome(bal, req[t]) = outcome[t]
               /\ SerialRun(SerialBalances(bal, req[t]), ts \ {t}, cs)

\* What a transfer's ledger record holds.
Entry(t) ==
    [sender_id |-> wallets[req[t].sender_username].id,
     receiver_id |-> wallets[req[t].receiver_username].id,
     amount_cents |-> amount_cents(req[t])]

Recorded(i) ==
    [sender_id |-> transactions[i].sender_id,
     receiver_id |-> transactions[i].receiver_id,
     amount_cents |-> transactions[i].amount_cents]

\* The ledger holds one record for each transfer in S, and nothing else.
LedgerOf(S) ==
    /\ Len(transactions) = Cardinality(S)
    /\ \A t \in S :
          Cardinality({i \in DOMAIN transactions : Recorded(i) = Entry(t)})
              = Cardinality({u \in S : Entry(u) = Entry(t)})

\* The transfers a serial execution has to account for: all but those the
\* request validation refused (refused in any order) and those whose commit
\* met a storage fault (a fault of the run, rolled back).
ToSerialize ==
    {t \in Launched : outcome[t] \notin {"invalid", "storage_failure"}}

\* C7 (Serializability): once the transfers of a run have finished, their
\* outcomes, the balances and the ledger records are those of running the
\* same transfers one at a time in some order.
Serializable ==
    Quiescent =>
        /\ SerialRun([n \in Names |-> Absent], ToSerialize, Existing)
        /\ LedgerOf({t \in ToSerialize : outcome[t] = "success"})

\* ---------------------------------------------------------------------
\* C8 (Ledger/transfer correspondence): in every reachable state the ledger
\* holds exactly one record per transfer that has committed, with that
\* transfer's sender id, receiver id and amount, and no other record.
LedgerMatches == LedgerOf(Succeeded)

\* One transfer has committed and another has failed.
LedgerMatchesWitness ==
    /\ Succeeded # {}
    /\ \E t \in Transfers :
          outcome[t] \in {"not_found", "insufficient", "storage_failure", "deadlock"}

\* ---------------------------------------------------------------------
\* C9 (Idempotent creation): a create_wallet request that finds its name
\* taken answers "User already exists" and changes no wallet and draws no id.
IdempotentCreate ==
    [][(cresp' # cresp /\ cresp'.msg = "User already exists")
          => /\ Exists(cresp'.username)
             /\ wallets' = wallets
             /\ wallet_id_seq' = wallet_id_seq]_vars

\* The name asked for again belongs to a wallet whose balance transfers have
\* moved away from the bonus.
IdempotentCreateWitness ==
    /\ cresp.msg = "User already exists"
    /\ Balance[cresp.username] # BonusCents

\* ---------------------------------------------------------------------
\* C10 (InvalidAmount): a transfer whose amount in cents is not positive is
\* refused as invalid on arrival: it takes no lock and reaches no commit.
InvalidAmountRejected ==
    \A t \in Launched :
        amount_cents(req[t]) <= 0 => (pc[t] = "done" /\ outcome[t] = "invalid")


\* ---------------------------------------------------------------------
\* C11 (Rollback on storage failure): a transfer whose commit fails leaves
\* every balance and the ledger exactly as they were, and holds no lock.
RollbackOnFailure ==
    [][\A t \in Transfers :
          (pc[t] = "commit" /\ outcome'[t] = "storage_failure")
          => /\ wallets' = wallets
             /\ transactions' = transactions
             /\ \A n \in Names : row_lock'[n] # t]_vars

\* The commit of a transfer of a positive number of cents between two
\* wallets has failed.
RollbackOnFailureWitness ==
    \E t \in Transfers :
        /\ outcome[t] = "storage_failure"
        /\ amount_cents(req[t]) > 0
        /\ req[t].sender_username # req[t].receiver_username

\* ---------------------------------------------------------------------
\* The ledger's account of a wallet: the bonus, plus what its records say it
\* received, minus what they say it sent.
RECURSIVE LedgerSum(_, _, _)
LedgerSum(ledger, id, side) ==
    IF ledger = << >> THEN 0
    ELSE (IF Head(ledger)[side] = id THEN Head(ledger).amount_cents ELSE 0)
         + LedgerSum(Tail(ledger), id, side)

Received(n) == LedgerSum(transactions, wallets[n].id, "receiver_id")
Sent(n) == LedgerSum(transactions, wallets[n].id, "sender_id")
Explained(n) == BonusCents + Received(n) - Sent(n)

\* C12 (Read isolation): a balance read answers with the balance that the
\* committed transfers, and no transfer still under way, account for; it
\* answers 404 exactly when the wallet does not exist.
ReadIsolation ==
    [][Len(bresp') > Len(bresp)
       => LET r == bresp'[Len(bresp')] IN
          IF Exists(r.username)
          THEN /\ r.status = 200
               /\ r.per = CentsPerDollar
               /\ r.cents = Explained(r.username)
          ELSE r.status = 404]_vars

\* A read of a wallet was served, and a transfer changing that wallet has
\* moved the money in its session and not committed yet.
ReadIsolationWitness ==
    \E t \in Transfers, i \in DOMAIN bresp :
        /\ pc[t] = "commit"
        /\ bresp[i].status = 200
        /\ bresp[i].username \in {sender[t], receiver[t]}
        /\ session[t][bresp[i].username] # wallets[bresp[i].username].balance_cents
        /\ bresp[i].cents = wallets[bresp[i].username].balance_cents

\* ---------------------------------------------------------------------
\* C13 (Transaction amounts positive): every record of the ledger has
\* amount_cents >= 1.
AmountsPositive ==
    \A i \in DOMAIN transactions : transactions[i].amount_cents >= 1

\* ---------------------------------------------------------------------
\* C14 (Error classification): a transfer admitted by validation ends with
\* not_found when its sender or its receiver does not exist, and with
\* insufficient funds when both exist and the sender's balance, read under
\* its lock, is below the amount.
ErrorClassification ==
    [][\A t \in Transfers :
          (outcome[t] = "none" /\ outcome'[t] \notin {"none", "invalid"})
          => LET s == req[t].sender_username
                 r == req[t].receiver_username
             IN /\ (~Exists(s) \/ ~Exists(r)) => outcome'[t] = "not_found"
                /\ (/\ pc[t] = "lock_receiver"
                    /\ sender[t] # None
                    /\ Exists(r)
                    /\ session[t][sender[t]] < amount_cents(req[t]))
                   => outcome'[t] = "insufficient"]_vars

\* ---------------------------------------------------------------------
\* C15 (Append-only ledger): a record once committed stays in the ledger
\* unchanged, and the ids of the records are pairwise distinct.
AppendOnly ==
    [][/\ Len(transactions') >= Len(transactions)
       /\ \A i \in DOMAIN transactions : transactions'[i] = transactions[i]
       /\ \A i, j \in DOMAIN transactions' :
             i # j => transactions'[i].id # transactions'[j].id]_vars

\* Two transfers have committed, one after the other.
AppendOnlyWitness ==
    /\ Len(transactions) >= 2
    /\ Cardinality(Succeeded) >= 2

LocksReleased ==
    \A n \in Names :
        row_lock[n] # 0 => pc[row_lock[n]] \in {"lock_receiver", "commit"}

\* A transfer has ended with not_found after locking its sender, the one of
\* its two wallets that exists, and that wallet's lock is free again.
LocksReleasedWitness ==
    \E t \in Transfers :
        /\ outcome[t] = "not_found"
        /\ Exists(req[t].sender_username)
        /\ ~Exists(req[t].receiver_username)
        /\ row_lock[req[t].sender_username] = 0

\* ---------------------------------------------------------------------
\* C18 (Self-transfer): a transfer whose sender and receiver are the same
\* existing wallet never waits for its own lock; with a balance of at least
\* the amount it goes on to commit, and its commit leaves the balances as
\* they were and appends one record with sender_id = receiver_id; with less
\* it ends with insufficient funds and changes nothing.
SelfTransfer ==
    [][\A t \in Transfers :
          (pc[t] # "idle" /\ req[t].sender_username = req[t].receiver_username)
          => LET n == req[t].sender_username
                 a == amount_cents(req[t])
             IN /\ (pc'[t] = "lock_receiver" /\ sender'[t] # None)
                   => can_lock(t, n)'
                /\ (pc[t] = "lock_receiver" /\ pc'[t] # "lock_receiver"
                    /\ sender[t] # None)
                   => IF wallets[n].balance_cents >= a
                      THEN /\ pc'[t] = "commit"
                           /\ session'[t][n] = wallets[n].balance_cents
                      ELSE /\ outcome'[t] = "insufficient"
                           /\ wallets' = wallets
                           /\ transactions' = transactions
                /\ (pc[t] = "commit" /\ outcome'[t] = "success")
                   => /\ wallets' = wallets
                      /\ transactions' =
                            Append(transactions,
                                   [id |-> txn_id_seq + 1,
                                    sender_id |-> wallets[n].id,
                                    receiver_id |-> wallets[n].id,
                                    amount_cents |-> a])]_vars

\* A self-transfer of a positive number of cents has committed and is in
\* the ledger.
SelfTransferWitness ==
    \E t \in Succeeded :
        /\ req[t].sender_username = req[t].receiver_username
        /\ amount_cents(req[t]) > 0
        /\ \E i \in DOMAIN transactions :
              /\ transactions[i].sender_id = wallets[req[t].sender_username].id
              /\ transactions[i].receiver_id = transactions[i].sender_id
              /\ transactions[i].amount_cents = amount_cents(req[t])

\* ---------------------------------------------------------------------
\* C19 (Concurrent creation of the same name): no create_wallet request
\* ends with an error, whatever other creations run beside it.
CreatesWithoutError ==
    cresp.msg \in {"none", "Wallet created", "User already exists"}

\* ---------------------------------------------------------------------
\* C20 (Ledger explains balances): after every step each wallet's balance
\* is 10000 plus the amounts of the records naming it as receiver minus the
\* amounts of the records naming it as sender, and a commit changes no
\* wallet other than the transfer's sender and receiver.
LedgerExplains ==
    [][/\ \A n \in Names :
             Exists(n)' => wallets'[n].balance_cents = Explained(n)'
       /\ \A t \in Transfers :
             (pc[t] = "commit" /\ outcome'[t] = "success")
             => \A n \in Names \ {req[t].sender_username, req[t].receiver_username} :
                   wallets'[n] = wallets[n]]_vars

\* A wallet has both received and sent money, and its balance has moved.
LedgerExplainsWitness ==
    \E n \in Existing :
        /\ Received(n) > 0
        /\ Sent(n) > 0
        /\ Balance[n] # BonusCents

====
